---- MODULE Spec2Model ----
(***************************************************************************)
(* Escapade Locale: the search orchestration of App (src/src/App.tsx) and  *)
(* the exported searchActivities (src/src/services/geminiService.ts).      *)
(*                                                                         *)
(* Strings that are only compared are TLA+ strings.  Strings that are      *)
(* built by interpolation (the prompt) are sequences of characters and    *)
(* literal template pieces, so that "contains as a substring" is a real   *)
(* computation.  JavaScript null / undefined are the marker strings Null  *)
(* and Undefined; an optional object is a record with a presence flag.    *)
(***************************************************************************)
EXTENDS Integers, Sequences, FiniteSets, TLC

\* ------------------------------------------------------------------ bounds
\* Longest grounding chunk list the external service returns in the model.
MaxChunks == 2
\* Cap on outstanding generateContent calls of handleSearch (never binding
\* while the submit button is disabled during loading).
MaxPending == 2
\* Cap on outstanding calls of searchActivities.
MaxServiceCalls == 1

\* ------------------------------------------------------- JavaScript values
Null == "<null>"
Undefined == "<undefined>"

\* JavaScript truthiness of a string-or-nullish value.
Truthy(v) == v \notin {Null, Undefined, ""}

\* ---------------------------------------------------------- form domains
EmptyText == << >>
Annecy == <<"A", "n", "n", "e", "c", "y">>
Destinations == {EmptyText, Annecy}

\* format(new Date(), 'yyyy-MM-dd') and format(addDays(new Date(), 7), ...)
Today == <<"2", "0", "2", "6", "-", "0", "6", "-", "0", "1">>
NextWeek == <<"2", "0", "2", "6", "-", "0", "6", "-", "0", "8">>
\* a date input yields '' when cleared
StartDates == {Today, EmptyText}
EndDates == {NextWeek, Today}

\* <input type="range" min="5" max="100" step="5">
RadiusMax == 100
RadiusDefault == 30
RadiusValues == {RadiusDefault, RadiusMax}

\* positions the device may report, one of them on the equator
Positions == { <<0, 2>>, <<48, 2>> }
\* lat / lng values a caller of searchActivities may pass
Latitudes == {0, 48}
Longitudes == {0, 2}
NoCoords == [present |-> FALSE, lat |-> 0, lng |-> 0]
Coords(la, lo) == [present |-> TRUE, lat |-> la, lng |-> lo]

\* ------------------------------------------------------------ the messages
FallbackMessage == "Desole, je n'ai pas trouve d'activites pour cette periode."
ErrorMessage == "Une erreur est survenue lors de la recherche. Veuillez reessayer."
ItineraryText == "Day 1: ..."

\* --------------------------------------------------------- grounding chunks
\* A chunk is null, or an object whose maps / web payloads may be absent.
\* A payload's uri "" stands for a missing or empty uri.
NoPayload == [present |-> FALSE, title |-> "", uri |-> ""]
Payload(t, u) == [present |-> TRUE, title |-> t, uri |-> u]
NullChunk == [isNull |-> TRUE, maps |-> NoPayload, web |-> NoPayload]
PlaceChunk(t, u) == [isNull |-> FALSE, maps |-> Payload(t, u), web |-> NoPayload]
WebChunk(t, u) == [isNull |-> FALSE, maps |-> NoPayload, web |-> Payload(t, u)]
MalformedChunk == [isNull |-> FALSE, maps |-> NoPayload, web |-> NoPayload]

ChunkValues ==
  { NullChunk, MalformedChunk,
    PlaceChunk("A", "https://u1"), WebChunk("B", "https://u1"),
    PlaceChunk("C", "") }

RECURSIVE SeqsUpTo(_, _)
SeqsUpTo(S, n) ==
  IF n = 0 THEN { << >> }
  ELSE LET shorter == SeqsUpTo(S, n - 1)
       IN shorter \cup { Append(s, x) : s \in {t \in shorter : Len(t) = n - 1}, x \in S }

ChunkLists == SeqsUpTo(ChunkValues, MaxChunks)

\* -------------------------------------------------------------- responses
\* kind: "none" (nothing settled), "rejected" (generateContent rejected),
\* "null" (resolved with a nullish value), "ok" (a response object).
\* candidates is Undefined-like when hasCandidates is FALSE; a candidate's
\* groundingMetadata and its groundingChunks may each be absent.
Candidate(hasMeta, hasChunks, chunks) ==
  [hasMetadata |-> hasMeta, hasChunks |-> hasChunks, groundingChunks |-> chunks]

CandidateValues ==
  { Candidate(FALSE, FALSE, << >>), Candidate(TRUE, FALSE, << >>) }
  \cup { Candidate(TRUE, TRUE, cs) : cs \in ChunkLists }

Response(k, t, hasC, cands) ==
  [kind |-> k, text |-> t, hasCandidates |-> hasC, candidates |-> cands]

NoResponse == Response("none", Undefined, FALSE, << >>)
RejectedResponse == Response("rejected", Undefined, FALSE, << >>)
NullResponse == Response("null", Undefined, FALSE, << >>)

TextValues == {Undefined, "", ItineraryText}

OkResponses ==
  { Response("ok", t, FALSE, << >>) : t \in TextValues }
  \cup { Response("ok", t, TRUE, << >>) : t \in TextValues }
  \cup { Response("ok", t, TRUE, <<c>>) : t \in TextValues, c \in CandidateValues }

ResolvedValues == OkResponses \cup {NullResponse}

\* ------------------------------------------------------- string building
DigitChar == <<"0", "1", "2", "3", "4", "5", "6", "7", "8", "9">>

\* `${n}` for a non-negative integer n: its decimal digits.
RECURSIVE Digits(_)
Digits(n) ==
  IF n < Len(DigitChar) THEN << DigitChar[n + 1] >>
  ELSE Digits(n \div Len(DigitChar)) \o << DigitChar[(n % Len(DigitChar)) + 1] >>

\* String.prototype.includes on character sequences.
Contains(hay, needle) ==
  \E i \in 0..(Len(hay) - Len(needle)) :
    \A j \in 1..Len(needle) : hay[i + j] = needle[j]

Placeholder == << "ma position actuelle" >>

\* location || 'ma position actuelle'
DestinationOrPlaceholder(loc) == IF loc = EmptyText THEN Placeholder ELSE loc

\* Faulty variant: ${location} without the || placeholder.
BuildPromptNoPlaceholder(loc, start, end, rad) ==
  << "Je planifie un voyage a " >> \o loc
  \o << " du " >> \o start \o << " au " >> \o end
  \o << ". Je souhaite decouvrir les activites suivantes dans un rayon de " >>
  \o Digits(rad)
  \o << "km : 1. Marches 2. Brocantes et vide-greniers 3. Evenements locaux et culturels 4. Escape games 5. Fetes de village et festivals 6. Recycleries et ressourceries. Organise ta reponse jour par jour du " >>
  \o start \o << " au " >> \o end
  \o << ". Pour chaque jour, liste les evenements ... Utilise des titres clairs pour chaque jour." >>

\* The template literal of handleSearch.  Each literal run of the template
\* is one element, so that only interpolated values can match a needle.
BuildPrompt(loc, start, end, rad) ==
  << "Je planifie un voyage a " >> \o DestinationOrPlaceholder(loc)
  \o << " du " >> \o start \o << " au " >> \o end
  \o << ". Je souhaite decouvrir les activites suivantes dans un rayon de " >>
  \o Digits(rad)
  \o << "km : 1. Marches 2. Brocantes et vide-greniers 3. Evenements locaux et culturels 4. Escape games 5. Fetes de village et festivals 6. Recycleries et ressourceries. Organise ta reponse jour par jour du " >>
  \o start \o << " au " >> \o end
  \o << ". Pour chaque jour, liste les evenements ... Utilise des titres clairs pour chaque jour." >>

\* The template literal of searchActivities: params.location is used as is.
ServicePrompt(params) ==
  << "Trouve des activites a faire a " >> \o params.location
  \o << " et dans un rayon de " >> \o Digits(params.radius)
  \o << "km entre le " >> \o params.startDate
  \o << " et le " >> \o params.endDate
  \o << ". Je recherche specifiquement : marches, brocantes, escape games, fetes de village, recycleries. Reponds sous forme de liste structuree." >>

\* ------------------------------------------------ retrieval configuration
NoLatLng == [present |-> FALSE, latitude |-> 0, longitude |-> 0]
LatLng(la, lo) == [present |-> TRUE, latitude |-> la, longitude |-> lo]

ModelName == "gemini-2.5-flash"

\* userCoords ? { latitude: userCoords.lat, longitude: userCoords.lng } : undefined
\* (userCoords is an object or null: an object is truthy whatever it holds)
\* Faulty variant: a default position instead of undefined.
AppLatLngDefaultsToOrigin(coords) ==
  IF coords.present THEN LatLng(coords.lat, coords.lng) ELSE LatLng(0, 0)

AppLatLng(coords) ==
  IF coords.present THEN LatLng(coords.lat, coords.lng) ELSE NoLatLng

\* tools: [{ googleMaps: {} }, { googleSearch: {} }]
AppTools == {"googleMaps", "googleSearch"}

\* the argument of ai.models.generateContent in handleSearch
AppRequest(loc, start, end, rad, coords) ==
  [ model |-> ModelName,
    contents |-> BuildPrompt(loc, start, end, rad),
    tools |-> AppTools,
    latLng |-> AppLatLng(coords) ]

\* An optional number of SearchParams (lat?: number).
NoNumber == [defined |-> FALSE, val |-> 0]
Number(n) == [defined |-> TRUE, val |-> n]
\* JavaScript truthiness of an optional number: undefined and 0 are falsy.
TruthyNumber(n) == n.defined /\ n.val # 0

\* params.lat && params.lng ? { latitude: params.lat, longitude: params.lng } : undefined
ServiceLatLng(params) ==
  IF TruthyNumber(params.lat) /\ TruthyNumber(params.lng)
  THEN LatLng(params.lat.val, params.lng.val) ELSE NoLatLng

\* tools: [{ googleMaps: {} }]
ServiceTools == {"googleMaps"}

\* the argument of ai.models.generateContent in searchActivities
ServiceRequest(params) ==
  [ model |-> ModelName,
    contents |-> ServicePrompt(params),
    tools |-> ServiceTools,
    latLng |-> ServiceLatLng(params) ]

SearchParamsValues ==
  [ location : Destinations, startDate : StartDates, endDate : EndDates,
    radius : RadiusValues,
    lat : {NoNumber} \cup {Number(la) : la \in Latitudes},
    lng : {NoNumber} \cup {Number(lo) : lo \in Longitudes} ]

\* ------------------------------------------------- response extraction
\* Faulty variant: response.candidates[0].groundingMetadata.groundingChunks
\* without ?. throws on every absent link.
ExtractionThrowsWithoutOptionalChaining(resp) ==
  \/ resp.kind = "null"
  \/ ~resp.hasCandidates
  \/ Len(resp.candidates) = 0
  \/ ~resp.candidates[1].hasMetadata

\* Reading response.text throws exactly when response is nullish; the ?.
\* chain of line 99 never throws.
ExtractionThrows(resp) == resp.kind = "null"

\* Faulty variant: response.text without the || fallback.
ResultTextNoFallback(resp) == resp.text

\* response.text || "Desole, ..."
ResultText(resp) == IF Truthy(resp.text) THEN resp.text ELSE FallbackMessage

\* response.candidates?.[0]?.groundingMetadata?.groundingChunks || []
ExtractChunks(resp) ==
  IF ~resp.hasCandidates THEN << >>
  ELSE IF Len(resp.candidates) = 0 THEN << >>
  ELSE IF ~resp.candidates[1].hasMetadata THEN << >>
  ELSE IF ~resp.candidates[1].hasChunks THEN << >>
  ELSE resp.candidates[1].groundingChunks

\* ----------------------------------------------------------- rendering
Anchor(k, payload) == [kind |-> k, title |-> payload.title, href |-> payload.uri]

\* groundingChunks.map(...): an anchor for a chunk with maps, else an anchor
\* for a chunk with web, else null (nothing rendered).  Only called on
\* lists without a null element (reading chunk.maps of null throws).
RECURSIVE RenderChunks(_)
RenderChunks(chunks) ==
  IF chunks = << >> THEN << >>
  ELSE LET c == Head(chunks)
           rest == RenderChunks(Tail(chunks))
       IN IF c.maps.present THEN << Anchor("place", c.maps) >> \o rest
          ELSE IF c.web.present THEN << Anchor("web", c.web) >> \o rest
          ELSE rest

\* The results section is rendered when result is truthy, and the sources
\* block inside it when groundingChunks.length > 0.
SourcesBlockRendered(res, chunks) == Truthy(res) /\ Len(chunks) > 0

\* chunk.maps on a null chunk: TypeError during render.
RenderThrows(res, chunks) ==
  SourcesBlockRendered(res, chunks) /\ \E i \in 1..Len(chunks) : chunks[i].isNull

RenderedSources(res, chunks) ==
  IF SourcesBlockRendered(res, chunks) /\ ~RenderThrows(res, chunks)
  THEN RenderChunks(chunks) ELSE << >>

\* ------------------------------------------------------------------ state
VARIABLES
  location,        \* useState('')                       App.tsx:34
  startDate,       \* useState(format(new Date(), ...))  App.tsx:35
  endDate,         \* useState(format(addDays(...)))     App.tsx:36
  radius,          \* useState(30)                       App.tsx:37
  loading,         \* useState(false)                    App.tsx:38
  result,          \* useState<string | null>(null)      App.tsx:39
  groundingChunks, \* useState<any[]>([])                App.tsx:40
  userCoords,      \* useState<{lat, lng} | null>(null)  App.tsx:41
  geo,             \* position of the geolocation effect and its callbacks
  pending,         \* suspended handleSearch calls: the request awaited and
                   \* the state values captured by the closure
  response,        \* what the handleSearch call that settled last received,
                   \* NoResponse since a newer call started
  outcome,         \* path the handleSearch call that completed last took:
                   \* "success" (try ran through) or "error" (catch)
  rendered,        \* anchors of the sources block in the last render
  crashed,         \* a render threw: the tree is unmounted
  calls,           \* generateContent calls issued by the handleSearch run that
                   \* started last (0 before the first submission)
  positionQueries, \* getCurrentPosition calls made so far
  svcPending,      \* suspended searchActivities calls
  svcReturn        \* how the last searchActivities call ended

vars ==
  << location, startDate, endDate, radius, loading, result, groundingChunks,
     userCoords, geo, pending, response, outcome, rendered, crashed,
     calls, positionQueries, svcPending, svcReturn >>

formVars == << location, startDate, endDate, radius >>
searchVars == << loading, result, groundingChunks, pending, response, outcome, rendered, crashed, calls >>
geoVars == << userCoords, geo, positionQueries >>
serviceVars == << svcPending, svcReturn >>

Init ==
  /\ location = EmptyText
  /\ startDate = Today
  /\ endDate = NextWeek
  /\ radius = RadiusDefault
  /\ loading = FALSE
  /\ result = Null
  /\ groundingChunks = << >>
  /\ userCoords = NoCoords
  /\ geo = "mounted"
  /\ pending = << >>
  /\ response = NoResponse
  /\ outcome = "none"
  /\ rendered = << >>
  /\ crashed = FALSE
  /\ calls = 0
  /\ positionQueries = 0
  /\ svcPending = << >>
  /\ svcReturn = "none"

RemoveAt(s, i) == SubSeq(s, 1, i - 1) \o SubSeq(s, i + 1, Len(s))

\* --------------------------------------------------------- geolocation
\* useEffect(() => { if (navigator.geolocation) getCurrentPosition(ok, err) }, [])
UseEffectGeolocation(supported) ==
  /\ ~crashed
  /\ geo = "mounted"
  /\ geo' = IF supported THEN "querying" ELSE "unsupported"
  /\ positionQueries' = IF supported THEN positionQueries + 1 ELSE positionQueries
  /\ UNCHANGED << userCoords, formVars, searchVars, serviceVars >>

\* Faulty variant: watchPosition instead of getCurrentPosition, the success
\* callback runs again when the device moves.
GeolocationSuccessWatching(la, lo) ==
  /\ ~crashed
  /\ geo \in {"querying", "located"}
  /\ geo' = "located"
  /\ userCoords' = Coords(la, lo)
  /\ UNCHANGED << positionQueries, formVars, searchVars, serviceVars >>

\* (position) => setUserCoords({ lat, lng })
GeolocationSuccess(la, lo) ==
  /\ ~crashed
  /\ geo = "querying"
  /\ geo' = "located"
  /\ userCoords' = Coords(la, lo)
  /\ UNCHANGED << positionQueries, formVars, searchVars, serviceVars >>

\* (error) => console.error(...)
GeolocationError ==
  /\ ~crashed
  /\ geo = "querying"
  /\ geo' = "failed"
  /\ UNCHANGED << userCoords, positionQueries, formVars, searchVars, serviceVars >>

\* ------------------------------------------------------------ the form
SetLocation(v) ==
  /\ ~crashed
  /\ location' = v
  /\ UNCHANGED << startDate, endDate, radius, searchVars, geoVars, serviceVars >>

SetRadius(v) ==
  /\ ~crashed
  /\ radius' = v
  /\ UNCHANGED << location, startDate, endDate, searchVars, geoVars, serviceVars >>

SetStartDate(v) ==
  /\ ~crashed
  /\ startDate' = v
  /\ UNCHANGED << location, endDate, radius, searchVars, geoVars, serviceVars >>

SetEndDate(v) ==
  /\ ~crashed
  /\ endDate' = v
  /\ UNCHANGED << location, startDate, radius, searchVars, geoVars, serviceVars >>

\* ---------------------------------------------------------- handleSearch
\* Faulty variant: the submit button without disabled={loading}.
SubmitEnabledWhileLoading == TRUE

\* <button type="submit" disabled={loading}>: the form has no other submit
\* control, and implicit submission (Enter) is blocked while its default
\* button is disabled.
SubmitEnabled == ~loading

\* handleSearch up to the await: the three resets, the prompt, the call.
HandleSearchStart(clearedResult, clearedChunks) ==
  /\ ~crashed
  /\ SubmitEnabled
  /\ Len(pending) < MaxPending
  /\ loading' = TRUE
  /\ result' = clearedResult
  /\ groundingChunks' = clearedChunks
  /\ pending' = Append(pending,
       [ request |-> AppRequest(location, startDate, endDate, radius, userCoords),
         location |-> location, startDate |-> startDate, endDate |-> endDate,
         radius |-> radius, userCoords |-> userCoords ])
  /\ calls' = 1
  /\ response' = NoResponse
  /\ UNCHANGED outcome
  /\ rendered' = RenderedSources(clearedResult, clearedChunks)
  /\ crashed' = RenderThrows(clearedResult, clearedChunks)
  /\ UNCHANGED << formVars, geoVars, serviceVars >>

\* Faulty variant: setResult(null) left out.
HandleSearchKeepsResult == HandleSearchStart(result, << >>)

\* Faulty variant: setGroundingChunks([]) left out.
HandleSearchKeepsChunks == HandleSearchStart(Null, groundingChunks)

\* setLoading(true); setResult(null); setGroundingChunks([]); ... await generateContent
HandleSearch == HandleSearchStart(Null, << >>)

\* handleSearch from the await on: call i settles, the state is set, the
\* component renders again.
HandleSearchSettle(i, resp, newResult, newChunks, path, newLoading) ==
  /\ ~crashed
  /\ i \in 1..Len(pending)
  /\ pending' = RemoveAt(pending, i)
  /\ response' = resp
  /\ result' = newResult
  /\ groundingChunks' = newChunks
  /\ outcome' = path
  /\ loading' = newLoading
  /\ rendered' = RenderedSources(newResult, newChunks)
  /\ crashed' = RenderThrows(newResult, newChunks)
  /\ UNCHANGED << calls, formVars, geoVars, serviceVars >>

\* generateContent resolves: lines 96-100, or the catch when they throw; finally
HandleSearchResolve(i, resp) ==
  IF ExtractionThrows(resp)
  THEN HandleSearchSettle(i, resp, ErrorMessage, groundingChunks, "error", FALSE)
  ELSE HandleSearchSettle(i, resp, ResultText(resp), ExtractChunks(resp), "success", FALSE)

\* Faulty variant: the catch calls generateContent once more before it
\* gives up.
HandleSearchRejectRetries(i) ==
  IF calls <= 1
  THEN /\ ~crashed
       /\ i \in 1..Len(pending)
       /\ calls' = calls + 1
       /\ UNCHANGED << loading, result, groundingChunks, pending, response,
                       outcome, rendered, crashed, formVars, geoVars, serviceVars >>
  ELSE HandleSearchSettle(i, RejectedResponse, ErrorMessage, groundingChunks, "error", FALSE)

\* Faulty variant: setLoading(false) in the try block only, no finally.
HandleSearchRejectWithoutFinally(i) ==
  HandleSearchSettle(i, RejectedResponse, ErrorMessage, groundingChunks, "error", loading)

\* generateContent rejects: catch, finally
HandleSearchReject(i) ==
  HandleSearchSettle(i, RejectedResponse, ErrorMessage, groundingChunks, "error", FALSE)

\* -------------------------------------------------------- searchActivities
\* searchActivities up to the await
SearchActivities(params) ==
  /\ Len(svcPending) < MaxServiceCalls
  /\ svcPending' = Append(svcPending, [ request |-> ServiceRequest(params), params |-> params ])
  /\ svcReturn' = "awaiting"
  /\ UNCHANGED << formVars, searchVars, geoVars >>

\* generateContent resolves: return []
SearchActivitiesResolve(i) ==
  /\ i \in 1..Len(svcPending)
  /\ svcPending' = RemoveAt(svcPending, i)
  /\ svcReturn' = "empty list"
  /\ UNCHANGED << formVars, searchVars, geoVars >>

\* generateContent rejects: the returned promise rejects
SearchActivitiesReject(i) ==
  /\ i \in 1..Len(svcPending)
  /\ svcPending' = RemoveAt(svcPending, i)
  /\ svcReturn' = "rejected"
  /\ UNCHANGED << formVars, searchVars, geoVars >>

\* --------------------------------------------------------- specifications
\* The application: App is the only entry point, searchActivities is not called.
Next ==
  \/ \E supported \in BOOLEAN : UseEffectGeolocation(supported)
  \/ \E pos \in Positions : GeolocationSuccess(pos[1], pos[2])
  \/ GeolocationError
  \/ \E v \in Destinations : SetLocation(v)
  \/ \E v \in RadiusValues : SetRadius(v)
  \/ \E v \in StartDates : SetStartDate(v)
  \/ \E v \in EndDates : SetEndDate(v)
  \/ HandleSearch
  \/ \E i \in 1..MaxPending, resp \in ResolvedValues : HandleSearchResolve(i, resp)
  \/ \E i \in 1..MaxPending : HandleSearchReject(i)

Spec == Init /\ [][Next]_vars

\* The exported service function, called directly.
NextService ==
  \/ \E params \in SearchParamsValues : SearchActivities(params)
  \/ \E i \in 1..MaxServiceCalls : SearchActivitiesResolve(i)
  \/ \E i \in 1..MaxServiceCalls : SearchActivitiesReject(i)

SpecService == Init /\ [][NextService]_vars

\* ------------------------------------------------------------------ claims
\* The phase the presentation layer sees, from loading, result and the path
\* the last completed search took.
Phase ==
  IF loading THEN "Searching"
  ELSE IF ~Truthy(result) THEN "Idle"
  ELSE IF outcome = "error" THEN "Failed"
  ELSE "Succeeded"

Outstanding == Len(pending) + Len(svcPending)

\* C1: single-flight.  In every reachable state at most one call to the
\* external generation service is outstanding, and while one is outstanding
\* the application is loading and refuses a further submission.
C1_SingleFlight ==
  /\ Outstanding <= 1
  /\ (Outstanding = 1) => (loading /\ ~ENABLED HandleSearch)

\* a search is in flight and the form cannot be submitted
C1_Witness == Len(pending) = 1 /\ loading /\ ~SubmitEnabled

\* C2: every search whose external call settled, by a response or by a
\* failure, is in exactly one of Succeeded and Failed: loading is cleared,
\* a non-empty result text is published and no call is left outstanding.
C2_SettledSearchTerminates ==
  (response.kind # "none") =>
    /\ ~loading
    /\ Truthy(result)
    /\ pending = << >>
    /\ Phase \in {"Succeeded", "Failed"}
    /\ (Phase = "Failed") = (response.kind \in {"rejected", "null"})
    /\ (Phase = "Failed") = (result = ErrorMessage)

\* a call that resolved with an unusable value ended in Failed
C2_Witness == response.kind = "null" /\ Phase = "Failed" /\ ~loading

\* C3: while a single search is in flight nothing of an earlier search is
\* shown: result is null, the sources list is empty, no anchor is rendered.
C3_NoStaleResult ==
  (loading /\ Len(pending) = 1) =>
    (result = Null /\ groundingChunks = << >> /\ rendered = << >>)

\* a search submitted after an earlier one had completed is in flight
C3_Witness ==
  /\ loading /\ Len(pending) = 1 /\ outcome = "success"
  /\ result = Null /\ groundingChunks = << >>

\* C4: a search that ended in failure shows the one fixed error message
\* and no sources; the error message never appears with a source.
C4_FailureIsClean ==
  /\ (response.kind \in {"rejected", "null"}) =>
       (Phase = "Failed" /\ result = ErrorMessage
        /\ groundingChunks = << >> /\ rendered = << >>)
  /\ (result = ErrorMessage) => (groundingChunks = << >> /\ rendered = << >>)

\* a rejected call ended in Failed with the error message and no sources
C4_Witness ==
  response.kind = "rejected" /\ result = ErrorMessage /\ groundingChunks = << >>

\* what C5 is about: a response object lacking text, candidates, or the
\* first candidate's groundingMetadata
TextMissing(resp) == resp.text = Undefined
MetadataMissing(resp) ==
  \/ ~resp.hasCandidates
  \/ (Len(resp.candidates) > 0 /\ ~resp.candidates[1].hasMetadata)

\* C5 as stated: any response missing text, missing candidates or missing
\* the first candidate's groundingMetadata gives a success with the
\* fallback text and no sources.
C5_AsStated ==
  (response.kind = "ok" /\ (TextMissing(response) \/ MetadataMissing(response))) =>
    (outcome = "success" /\ result = FallbackMessage /\ groundingChunks = << >>)

\* C5, amended: the extraction never throws on a response object and the
\* search succeeds; a response without text gives the fallback text; a
\* response without candidates, or whose first candidate has no
\* groundingMetadata, gives an empty sources list.
C5_NormalizerSafety ==
  (response.kind = "ok") =>
    /\ outcome = "success"
    /\ result # ErrorMessage
    /\ TextMissing(response) => result = FallbackMessage
    /\ MetadataMissing(response) => groundingChunks = << >>

\* a response with neither text nor candidates gave the fallback, no sources
C5_Witness ==
  /\ response.kind = "ok" /\ TextMissing(response) /\ ~response.hasCandidates
  /\ result = FallbackMessage /\ groundingChunks = << >>

\* the chunks the data model calls valid: place or web shape, non-empty uri
ValidChunk(c) ==
  /\ ~c.isNull
  /\ \/ (c.maps.present /\ c.maps.uri # "")
     \/ (c.web.present /\ c.web.uri # "")

RECURSIVE SourceReferences(_)
SourceReferences(chunks) ==
  IF chunks = << >> THEN << >>
  ELSE LET c == Head(chunks)
           rest == SourceReferences(Tail(chunks))
       IN IF ~ValidChunk(c) THEN rest
          ELSE IF c.maps.present /\ c.maps.uri # ""
               THEN << [kind |-> "place", title |-> c.maps.title, href |-> c.maps.uri] >> \o rest
               ELSE << [kind |-> "web", title |-> c.web.title, href |-> c.web.uri] >> \o rest

HasNullChunk(chunks) == \E i \in 1..Len(chunks) : chunks[i].isNull

\* C6: the sources rendered for a response are exactly its chunks of place
\* or web shape with a non-empty uri, in response order.
C6_ChunkMappingFidelity ==
  (response.kind = "ok" /\ ~HasNullChunk(groundingChunks)) =>
    rendered = SourceReferences(groundingChunks)

\* C7: a response whose chunk list holds a null element does not crash the
\* application, and its valid chunks are rendered.
C7_NullChunkSkipped ==
  (response.kind = "ok" /\ HasNullChunk(groundingChunks)) =>
    (~crashed /\ rendered = SourceReferences(groundingChunks))

\* C8: a request carries a location bias exactly when coordinates were
\* present when it was built, whatever their values, and then carries them.
C8_ConfigurationGating ==
  /\ \A i \in 1..Len(pending) :
       LET f == pending[i] IN
         /\ f.request.latLng.present = f.userCoords.present
         /\ f.userCoords.present =>
              (f.request.latLng.latitude = f.userCoords.lat
               /\ f.request.latLng.longitude = f.userCoords.lng)
  /\ \A i \in 1..Len(svcPending) :
       LET f == svcPending[i] IN
         f.request.latLng.present = (f.params.lat.defined /\ f.params.lng.defined)

\* C9: every outstanding request enables place grounding and web-search
\* grounding.
C9_BothGroundingCapabilities ==
  /\ \A i \in 1..Len(pending) :
       {"googleMaps", "googleSearch"} \subseteq pending[i].request.tools
  /\ \A i \in 1..Len(svcPending) :
       {"googleMaps", "googleSearch"} \subseteq svcPending[i].request.tools

\* C10: the prompt of every request handleSearch sent contains the
\* destination it was built from, or the placeholder when that was empty,
\* both dates and the radius in decimal.
C10_PromptCompleteness ==
  \A i \in 1..Len(pending) :
    LET f == pending[i]
        prompt == f.request.contents
    IN /\ Contains(prompt, IF f.location = << >> THEN << "ma position actuelle" >> ELSE f.location)
       /\ Contains(prompt, f.startDate)
       /\ Contains(prompt, f.endDate)
       /\ Contains(prompt, Digits(f.radius))
       /\ (f.location # << >> /\ f.startDate # << >>) =>
            Contains(prompt, f.location \o << " du " >> \o f.startDate)

\* a request built from an empty destination and the largest radius
C10_Witness ==
  /\ Len(pending) = 1
  /\ pending[1].location = << >>
  /\ pending[1].radius = RadiusMax
  /\ pending[1].startDate # pending[1].endDate

\* C11: no automatic retry.  Every accepted submission issues exactly one
\* generateContent call: none before the first submission, one while the
\* search is in flight, and still one, with nothing outstanding, after it
\* settled, in particular after a failure.
C11_NoAutomaticRetry ==
  /\ calls <= 1
  /\ (loading \/ response.kind # "none") => calls = 1
  /\ calls = Len(pending) + (IF response.kind # "none" THEN 1 ELSE 0)
  /\ (response.kind \in {"rejected", "null"}) => (pending = << >> /\ ~loading)

\* a search failed and its one call was not followed by another
C11_Witness ==
  calls = 1 /\ response.kind = "rejected" /\ pending = << >> /\ Phase = "Failed"

\* C12: position unavailability is a safe degraded mode.  As long as no
\* position was delivered (query not made, unsupported, still running, or
\* failed) the coordinates are absent and every outstanding request carries
\* no location bias; the position query puts the application in no error
\* state (without a search the result stays null) and does not block the
\* first submission; and once the query failed or is unsupported, it stays
\* so and the coordinates stay absent.
C12_DegradedInvariant ==
  (geo # "located") =>
    /\ ~userCoords.present
    /\ \A i \in 1..Len(pending) : ~pending[i].request.latLng.present
    /\ (calls = 0) => (result = Null /\ outcome = "none" /\ ~loading)
    /\ (Phase = "Idle") => ENABLED HandleSearch

C12_PositionUnavailableIsSafe ==
  /\ []C12_DegradedInvariant
  /\ [][(geo \in {"failed", "unsupported"}) =>
         (geo' = geo /\ ~userCoords'.present)]_vars

\* the position query failed, a first search succeeded all the same, and a
\* second one is in flight with no location bias
C12_Witness ==
  /\ geo = "failed" /\ outcome = "success"
  /\ Len(pending) = 1 /\ ~pending[1].request.latLng.present

\* C13: the published outcome is never a mix of two searches.  Whenever a
\* result text and a non-empty sources list are both present, the text is
\* the text (or the fallback for the missing text) and the list is the
\* chunk list of one and the same response, the one that settled last.
C13_NoMixedOutcome ==
  (Truthy(result) /\ groundingChunks # << >>) =>
    /\ response.kind = "ok"
    /\ IF Truthy(response.text) THEN result = response.text
                                ELSE result = FallbackMessage
    /\ response.hasCandidates
    /\ Len(response.candidates) > 0
    /\ groundingChunks = response.candidates[1].groundingChunks

\* an itinerary and its sources are displayed
C13_Witness ==
  /\ result = ItineraryText /\ Len(groundingChunks) > 0
  /\ response.kind = "ok" /\ response.text = ItineraryText

\* C14: once a search has been submitted the Idle state is never seen
\* again: whenever loading is false, a result text is present.
C14_IdleNeverReentered ==
  (calls >= 1) => (Phase # "Idle" /\ (~loading => Truthy(result)))

\* a search whose response had no text has settled: the fallback is shown
C14_Witness ==
  /\ calls >= 1 /\ ~loading /\ response.kind = "ok"
  /\ response.text = Undefined /\ result = FallbackMessage

\* C15: a failure is fatal to its own search only.  From Failed, as from
\* Succeeded, a new submission is accepted; the search it starts no longer
\* shows the error message and can end in Succeeded.
C15_FailureIsNotFatal ==
  /\ (Phase \in {"Failed", "Succeeded"}) => ENABLED HandleSearch
  /\ (loading /\ outcome = "error") =>
       /\ result # ErrorMessage
       /\ \E resp \in OkResponses : ENABLED HandleSearchResolve(1, resp)

\* The part of C15 about Failed alone: it holds, a failed search leaves no
\* chunk to render.
C15_FromFailed ==
  /\ (Phase = "Failed") => ENABLED HandleSearch
  /\ (loading /\ outcome = "error") =>
       /\ result # ErrorMessage
       /\ \E resp \in OkResponses : ENABLED HandleSearchResolve(1, resp)

\* C16: the device position is queried at most once, when the application
\* has mounted and by nothing else: a step that makes the query is the
\* effect's step and changes nothing of the search; the query is never
\* made again; and coordinates, once set, are never changed or cleared.
C16_PositionQueriedOnce ==
  /\ [](positionQueries <= 1)
  /\ [][ /\ positionQueries' >= positionQueries
         /\ (positionQueries' # positionQueries) =>
              (geo = "mounted" /\ geo' = "querying" /\ UNCHANGED searchVars)
         /\ (geo # "mounted") => (geo' # "mounted")
         /\ userCoords.present => (userCoords' = userCoords) ]_vars

\* the position was delivered, and a search made afterwards has failed
C16_Witness ==
  /\ positionQueries = 1 /\ userCoords.present
  /\ Phase = "Failed" /\ response.kind = "rejected"

ValidPositions(chunks) == { i \in 1..Len(chunks) : ValidChunk(chunks[i]) }

\* C17: sources are not deduplicated.  Every valid chunk of the response,
\* whether or not another one carries the same uri, has its own entry in
\* the published sources, and there are as many published sources as valid
\* chunks.
C17_NoDeduplication ==
  (response.kind = "ok") =>
    /\ Len(rendered) = Cardinality(ValidPositions(groundingChunks))
    /\ \A i, j \in ValidPositions(groundingChunks) :
         (i < j) => \E m, n \in 1..Len(rendered) :
           /\ m < n
           /\ rendered[m] = SourceReferences(<< groundingChunks[i] >>)[1]
           /\ rendered[n] = SourceReferences(<< groundingChunks[j] >>)[1]

\* The part of C17 about merging alone: when the render does not throw,
\* every chunk with a place or web payload has its own anchor, two chunks
\* with the same uri included.
C17_NothingMerged ==
  (response.kind = "ok" /\ ~crashed) =>
    Len(rendered) =
      Cardinality({ i \in 1..Len(groundingChunks) :
                      groundingChunks[i].maps.present \/ groundingChunks[i].web.present })

====
